---- MODULE Spec2Model ----
(***************************************************************************)
(* tools/bench_compare.py: load benchmark records from the JSON files      *)
(* named on the command line, group them by scenario and print one         *)
(* comparison block per scenario, with ratios against the (rust, rust)     *)
(* record.                                                                 *)
(*                                                                         *)
(* Data representation.                                                    *)
(*  - A JSON object (Python dict) is a function from its keys to its       *)
(*    values; a key the object lacks is outside its DOMAIN; {} is << >>.   *)
(*  - The scenario strings are tuples of code points, so that Python's     *)
(*    str ordering (used by sorted) is computed, not assumed; Text turns   *)
(*    them into the characters that are printed.                           *)
(*  - impl and target are strings; None is the string None below, which    *)
(*    no JSON string of the model spells.                                  *)
(*  - Floats are exact decimals: ns_per_iter is a whole number of          *)
(*    nanoseconds, total_secs a whole number of microseconds.  The values  *)
(*    of the model give no quotient that lies half-way between two         *)
(*    3-decimal numbers without being a binary fraction, so the rounding   *)
(*    of the exact quotient is the rounding of the double.                 *)
(*  - stdout is the sequence of printed lines, each a string.              *)
(***************************************************************************)
EXTENDS Integers, Sequences, FiniteSets, TLC

\* Bounds of the model: the number of command-line paths and the number of
\* records in all files together.
MaxPaths == 2
MaxRecords == 3

None == "None"

(***************************************************************************)
(* The inputs: the records a file may hold.                                *)
(***************************************************************************)
\* Scenario names: "ab" and "b"; a record without scenario falls under "".
ScenAB == <<97, 98>>
ScenB == <<98>>

Records ==
  { [scenario |-> ScenAB, impl |-> "rust", target |-> "rust",
     ns_per_iter |-> 10, total_secs |-> 10, iters |-> 1000],
    [scenario |-> ScenAB, impl |-> "moonbit", target |-> "native",
     ns_per_iter |-> 20, total_secs |-> 20, iters |-> 1000],
    [scenario |-> ScenAB, impl |-> "rust", target |-> "rust", ns_per_iter |-> 30],
    [scenario |-> ScenAB, impl |-> "rust", target |-> "rust",
     ns_per_iter |-> 0, total_secs |-> 0, iters |-> 0],
    [scenario |-> ScenAB, impl |-> "moonbit", target |-> "wasm-gc", iters |-> 5],
    [scenario |-> ScenB, impl |-> "rust", target |-> "rust", ns_per_iter |-> -10],
    [scenario |-> ScenB, impl |-> "moonbit", target |-> "wasm-gc", ns_per_iter |-> 20],
    [scenario |-> ScenB, impl |-> "rust", target |-> "native", ns_per_iter |-> 10],
    [impl |-> "moonbit", target |-> "native", ns_per_iter |-> 10],
    << >> }

RECURSIVE SeqsUpTo(_, _)
SeqsUpTo(S, n) ==
  IF n <= 0 THEN { << >> }
  ELSE LET shorter == SeqsUpTo(S, n - 1)
       IN  shorter \cup { Append(s, x) : s \in shorter, x \in S }

\* What a path may hold: a JSON array of at most n records, a JSON document
\* that is not an array, or text that is not JSON.
FileContents(n) ==
  { [json |-> "array", data |-> d] : d \in SeqsUpTo(Records, n) }
    \cup { [json |-> "object", data |-> << >>], [json |-> "invalid", data |-> << >>] }

(***************************************************************************)
(* Python helpers.                                                         *)
(***************************************************************************)
\* dict.get(key, default)
Get(item, key, default) == IF key \in DOMAIN item THEN item[key] ELSE default

\* bool(dict)
Truthy(item) == DOMAIN item # {}

\* Variant of StrLess: the shorter string first, as a sort keyed on length.
StrLess_by_length(s, t) ==
  IF Len(s) # Len(t) THEN Len(s) < Len(t)
  ELSE \E k \in 1..Len(s) : s[k] < t[k] /\ \A j \in 1..(k - 1) : s[j] = t[j]

\* str < str: the first differing code point decides, a proper prefix is less.
RECURSIVE StrLess(_, _)
StrLess(s, t) ==
  IF t = << >> THEN FALSE
  ELSE IF s = << >> THEN TRUE
  ELSE IF Head(s) # Head(t) THEN Head(s) < Head(t)
  ELSE StrLess(Tail(s), Tail(t))

\* sorted(set of str)
RECURSIVE sorted(_)
sorted(S) ==
  IF S = {} THEN << >>
  ELSE LET m == CHOOSE x \in S : \A y \in S \ {x} : StrLess(x, y)
       IN  <<m>> \o sorted(S \ {m})

Chr(c) == IF c = 97 THEN "a" ELSE "b"

RECURSIVE Text(_)
Text(s) == IF s = << >> THEN "" ELSE Chr(Head(s)) \o Text(Tail(s))

RECURSIVE Spaces(_)
Spaces(n) == IF n <= 0 THEN "" ELSE " " \o Spaces(n - 1)

RECURSIVE Zeros(_)
Zeros(n) == IF n <= 0 THEN "" ELSE "0" \o Zeros(n - 1)

RECURSIVE Pow10(_)
Pow10(d) == IF d <= 0 THEN 1 ELSE 10 * Pow10(d - 1)

\* format spec <w and >w
LeftAlign(s, w) == s \o Spaces(w - Len(s))
RightAlign(s, w) == Spaces(w - Len(s)) \o s

Abs(x) == IF x < 0 THEN -x ELSE x

\* Variant of Fixed: the digits after the d-th are dropped, not rounded.
Fixed_truncating(num, den, d) ==
  LET n == (Abs(num) * Pow10(d)) \div Abs(den)
      frac == ToString(n % Pow10(d))
  IN  (IF (num < 0 /\ den > 0) \/ (num > 0 /\ den < 0) THEN "-" ELSE "")
        \o ToString(n \div Pow10(d)) \o "." \o Zeros(d - Len(frac)) \o frac

\* format spec .df applied to the quotient num/den (den # 0): the nearest
\* d-decimal number, a tie going to the even one, with the quotient's sign.
Fixed(num, den, d) ==
  LET a == Abs(num) * Pow10(d)
      q == a \div Abs(den)
      r == a % Abs(den)
      n == IF 2 * r > Abs(den) THEN q + 1
           ELSE IF 2 * r < Abs(den) THEN q
           ELSE IF q % 2 = 0 THEN q ELSE q + 1
      frac == ToString(n % Pow10(d))
  IN  (IF (num < 0 /\ den > 0) \/ (num > 0 /\ den < 0) THEN "-" ELSE "")
        \o ToString(n \div Pow10(d)) \o "." \o Zeros(d - Len(frac)) \o frac

(***************************************************************************)
(* load_file and format_row.                                               *)
(***************************************************************************)
\* No document: load_file is not running.
NoData == [json |-> "none", data |-> << >>]

\* json.load(f): the document of the file, or JSONDecodeError
json_load(f) == IF f.json = "invalid" THEN "JSONDecodeError" ELSE ""

\* Variant of is_list: every document is accepted.
is_list_unchecked(d) == TRUE

\* isinstance(data, list)
is_list(d) == d.json = "array"

format_row(label, target, item) ==
  LET ns_per_iter == Get(item, "ns_per_iter", 0)
      total_secs == Get(item, "total_secs", 0)
      iters == Get(item, "iters", 0)
  IN  LeftAlign(label, 10) \o " " \o LeftAlign(target, 10) \o " "
        \o RightAlign(Fixed(ns_per_iter, 1, 3), 12) \o " "
        \o RightAlign(Fixed(total_secs, Pow10(6), 6), 12) \o " "
        \o RightAlign(ToString(iters), 10)

(***************************************************************************)
(* main.                                                                   *)
(***************************************************************************)
VARIABLES
  paths,        \* sys.argv[1:], the paths numbered in argument order
  data,         \* load_file's data: the document of the path being loaded
  items,        \* main's items
  scenarios,    \* main's scenarios
  by_scenario,  \* main's by_scenario
  out,          \* the lines printed to stdout
  status,       \* the exit status: "" while running, then "0", "2" or "1"
  raised,       \* the exception that ended the run, "" if none
  pc,           \* "start", "load", "check", "report", "exit"
  pi,           \* index into paths of the loop of line 29
  si            \* index into scenarios of the loop of line 43

vars == <<paths, data, items, scenarios, by_scenario, out, status, raised, pc, pi, si>>

usage == "usage: bench_compare.py <json...>"

\* Variant of order: the two moonbit pairs swapped.
order_swapped == << <<"rust", "rust">>, <<"moonbit", "wasm-gc">>, <<"moonbit", "native">> >>

order == << <<"rust", "rust">>, <<"moonbit", "native">>, <<"moonbit", "wasm-gc">> >>

\* Variant of extend: the document goes in front.
extend_front(its, more) == more \o its

\* items.extend(data)
extend(its, more) == its \o more

scenario_of(item) == Get(item, "scenario", << >>)

\* for item in items: by_scenario[item.get("scenario", "")].append(item)
RECURSIVE group(_, _)
group(by, its) ==
  IF its = << >> THEN by
  ELSE group([by EXCEPT ![scenario_of(Head(its))] = Append(@, Head(its))], Tail(its))

\* Variant of lookup_of: the first entry of a key is kept.
RECURSIVE lookup_of_first(_, _)
lookup_of_first(acc, entries) ==
  IF entries = << >> THEN acc
  ELSE LET e == Head(entries)
           k == <<Get(e, "impl", None), Get(e, "target", None)>>
       IN  lookup_of_first(acc @@ (k :> e), Tail(entries))

\* {(e.get("impl"), e.get("target")): e for e in entries}
RECURSIVE lookup_of(_, _)
lookup_of(acc, entries) ==
  IF entries = << >> THEN acc
  ELSE LET e == Head(entries)
           k == <<Get(e, "impl", None), Get(e, "target", None)>>
       IN  lookup_of((k :> e) @@ acc, Tail(entries))

\* item = lookup.get(key); if item:
found(lookup, key) == key \in DOMAIN lookup /\ Truthy(lookup[key])

\* for impl_name, target in order: ... print(format_row(...))
RECURSIVE rows(_, _)
rows(lookup, ord) ==
  IF ord = << >> THEN << >>
  ELSE LET p == Head(ord)
       IN  (IF found(lookup, p) THEN <<format_row(p[1], p[2], lookup[p])>> ELSE << >>)
             \o rows(lookup, Tail(ord))

\* rust_item.get("ns_per_iter", 0.0) or 0.0
rust_ns_of(rust_item) ==
  LET v == Get(rust_item, "ns_per_iter", 0) IN IF v = 0 THEN 0 ELSE v

\* Variant of ratio_guard: any non-zero reference.
ratio_guard_nonzero(lookup, p, rust_ns) == found(lookup, p) /\ rust_ns # 0

\* Variant of ratio_guard: the reference is not tested.
ratio_guard_untested(lookup, p, rust_ns) == found(lookup, p)

\* if item and rust_ns > 0.0:
ratio_guard(lookup, p, rust_ns) == found(lookup, p) /\ rust_ns > 0

\* ratio = item.get("ns_per_iter", 0.0) / rust_ns, printed with .3f
ratio_text(item, rust_ns) == Fixed(Get(item, "ns_per_iter", 0), rust_ns, 3)

\* The loop of lines 56-62.  A division by zero raises ZeroDivisionError and
\* ends the loop; the lines printed before it stay printed.
RECURSIVE ratios(_, _, _)
ratios(lookup, rust_ns, ord) ==
  IF ord = << >> THEN [raised |-> "", lines |-> << >>]
  ELSE LET p == Head(ord)
           rest == ratios(lookup, rust_ns, Tail(ord))
       IN  IF p[1] = "rust" THEN rest
           ELSE IF ~ratio_guard(lookup, p, rust_ns) THEN rest
           ELSE IF rust_ns = 0 THEN [raised |-> "ZeroDivisionError", lines |-> << >>]
           ELSE [raised |-> rest.raised,
                 lines |-> << "ratio vs rust (" \o p[1] \o "/" \o p[2] \o "): "
                              \o ratio_text(lookup[p], rust_ns)
                              \o "x" >> \o rest.lines]

column_header ==
  LeftAlign("impl", 10) \o " " \o LeftAlign("target", 10) \o " "
    \o RightAlign("ns/iter", 12) \o " " \o RightAlign("secs", 12) \o " "
    \o RightAlign("iters", 10)

\* Variant of block: the ratio lines are printed before the rows.
block_ratios_first(scenario, by) ==
  LET entries == Get(by, scenario, << >>)
      lookup == lookup_of(<< >>, entries)
      rr == IF found(lookup, <<"rust", "rust">>)
            THEN ratios(lookup, rust_ns_of(lookup[<<"rust", "rust">>]), order)
            ELSE [raised |-> "", lines |-> << >>]
  IN  [raised |-> rr.raised,
       lines |-> << "== " \o Text(scenario), column_header >> \o rr.lines
                   \o rows(lookup, order) \o << "" >>]

\* One iteration of the loop of line 43: the lines it prints and the
\* exception it raises, if any.
block(scenario, by) ==
  LET entries == Get(by, scenario, << >>)
      lookup == lookup_of(<< >>, entries)
      rr == IF found(lookup, <<"rust", "rust">>)
            THEN ratios(lookup, rust_ns_of(lookup[<<"rust", "rust">>]), order)
            ELSE [raised |-> "", lines |-> << >>]
      head == << "== " \o Text(scenario), column_header >> \o rows(lookup, order)
  IN  [raised |-> rr.raised,
       lines |-> head \o rr.lines \o (IF rr.raised = "" THEN << "" >> ELSE << >>)]

Init ==
  /\ paths \in { [i \in 1..n |-> i] : n \in 0..MaxPaths }
  /\ data = NoData
  /\ items = << >>
  /\ scenarios = << >>
  /\ by_scenario = << >>
  /\ out = << >>
  /\ status = ""
  /\ raised = ""
  /\ pc = "start"
  /\ pi = 1
  /\ si = 1

\* lines 24-26
Usage ==
  /\ pc = "start"
  /\ paths = << >>
  /\ out' = Append(out, usage)
  /\ status' = "2"
  /\ pc' = "exit"
  /\ UNCHANGED <<paths, data, items, scenarios, by_scenario, raised, pi, si>>

\* Variant of Begin: the loading starts whether or not there are paths.
Begin_unguarded ==
  /\ pc = "start"
  /\ items' = << >>
  /\ pi' = 1
  /\ pc' = "load"
  /\ UNCHANGED <<paths, data, scenarios, by_scenario, out, status, raised, si>>

\* lines 24 and 28
Begin ==
  /\ pc = "start"
  /\ paths # << >>
  /\ items' = << >>
  /\ pi' = 1
  /\ pc' = "load"
  /\ UNCHANGED <<paths, data, scenarios, by_scenario, out, status, raised, si>>

\* lines 29-30 and 8-9: the next path is opened and parsed; it holds f.
ReadFile ==
  /\ pc = "load"
  /\ pi <= Len(paths)
  /\ \E f \in FileContents(MaxRecords - Len(items)) :
       /\ data' = f
       /\ IF json_load(f) # ""
          THEN /\ raised' = json_load(f)
               /\ status' = "1"
               /\ pc' = "exit"
          ELSE /\ pc' = "check"
               /\ UNCHANGED <<raised, status>>
  /\ UNCHANGED <<paths, items, scenarios, by_scenario, out, pi, si>>

\* lines 10-12 and 30: the document is returned and appended, or rejected.
ExtendItems ==
  /\ pc = "check"
  /\ IF ~is_list(data)
     THEN /\ raised' = "ValueError"
          /\ status' = "1"
          /\ pc' = "exit"
          /\ UNCHANGED <<data, items, pi>>
     ELSE /\ items' = extend(items, data.data)
          /\ data' = NoData
          /\ pi' = pi + 1
          /\ pc' = "load"
          /\ UNCHANGED <<raised, status>>
  /\ UNCHANGED <<paths, scenarios, by_scenario, out, si>>

\* lines 32-35, after the last path
Group ==
  /\ pc = "load"
  /\ pi > Len(paths)
  /\ LET names == { scenario_of(items[i]) : i \in 1..Len(items) }
     IN  /\ scenarios' = sorted(names)
         /\ by_scenario' = group([s \in names |-> << >>], items)
  /\ si' = 1
  /\ pc' = "report"
  /\ UNCHANGED <<paths, data, items, out, status, raised, pi>>

\* lines 43-63, one iteration
PrintScenario ==
  /\ pc = "report"
  /\ si <= Len(scenarios)
  /\ LET b == block(scenarios[si], by_scenario)
     IN  /\ out' = out \o b.lines
         /\ IF b.raised # ""
            THEN /\ raised' = b.raised
                 /\ status' = "1"
                 /\ pc' = "exit"
                 /\ UNCHANGED si
            ELSE /\ si' = si + 1
                 /\ UNCHANGED <<raised, status, pc>>
  /\ UNCHANGED <<paths, data, items, scenarios, by_scenario, pi>>

\* main returns None after the last scenario: SystemExit(None), status 0
Return ==
  /\ pc = "report"
  /\ si > Len(scenarios)
  /\ status' = "0"
  /\ pc' = "exit"
  /\ UNCHANGED <<paths, data, items, scenarios, by_scenario, out, raised, pi, si>>

Next == Usage \/ Begin \/ ReadFile \/ ExtendItems \/ Group \/ PrintScenario \/ Return

Spec == Init /\ [][Next]_vars

(***************************************************************************)
(* What the report is expected to be, stated from the loaded records       *)
(* (items) and the printed lines (out) alone.                              *)
(***************************************************************************)
Finished == pc = "exit" /\ status = "0"

\* Every path has been loaded.
AllLoaded == paths # << >> /\ pc # "start" /\ pi > Len(paths)

NameOf(r) == IF "scenario" \in DOMAIN r THEN r.scenario ELSE << >>

ScenarioNames == { NameOf(r) : r \in Records }

LoadedNames == { NameOf(items[i]) : i \in 1..Len(items) }

\* Lexicographic order of code-point tuples.
LexLess(s, t) ==
  \E k \in 0..Len(s) :
    /\ k <= Len(t)
    /\ \A j \in 1..k : s[j] = t[j]
    /\ \/ k = Len(s) /\ k < Len(t)
       \/ k < Len(s) /\ k < Len(t) /\ s[k + 1] < t[k + 1]

Header(s) == "== " \o Text(s)

HeaderTexts == { Header(s) : s \in ScenarioNames }

ColumnHeaderText == "impl       target          ns/iter         secs      iters"

IsHeader(l) == l \in HeaderTexts

HeaderLines == SelectSeq(out, IsHeader)

NameOfHeader(l) == CHOOSE s \in ScenarioNames : l = Header(s)

\* The lines from the header of scenario s up to the next header.
Section(s) ==
  LET hs == { i \in 1..Len(out) : out[i] = Header(s) }
  IN  IF hs = {} THEN << >>
      ELSE LET h == CHOOSE i \in hs : \A j \in hs : i <= j
               later == { i \in (h + 1)..Len(out) : IsHeader(out[i]) }
               e == IF later = {} THEN Len(out) + 1
                    ELSE CHOOSE i \in later : \A j \in later : i <= j
           IN  SubSeq(out, h, e - 1)

RustPair == <<"rust", "rust">>
NativePair == <<"moonbit", "native">>
WasmPair == <<"moonbit", "wasm-gc">>

\* Every (impl, target) a record of the model can carry.
AllPairs == { "rust", "moonbit" } \X { "rust", "native", "wasm-gc" }

\* The positions in items of the records of scenario s whose impl and
\* target both are those of p.
Matching(s, p) ==
  { i \in 1..Len(items) :
      /\ NameOf(items[i]) = s
      /\ "impl" \in DOMAIN items[i] /\ items[i].impl = p[1]
      /\ "target" \in DOMAIN items[i] /\ items[i].target = p[2] }

HasRecord(s, p) == Matching(s, p) # {}

LastRecord(s, p) ==
  items[CHOOSE i \in Matching(s, p) : \A j \in Matching(s, p) : j <= i]

NsOf(r) == IF "ns_per_iter" \in DOMAIN r THEN r.ns_per_iter ELSE 0

NsValues == { NsOf(r) : r \in Records }

\* The rows that can be printed under the labels of p.
RowTexts == { <<p, format_row(p[1], p[2], r)>> : p \in AllPairs, r \in Records }

IsRowOf(p, l) == <<p, l>> \in RowTexts

IsRow(l) == \E p \in AllPairs : IsRowOf(p, l)

PairOfRow(l) == CHOOSE p \in AllPairs : IsRowOf(p, l)

RatioLine(p, c, r) ==
  "ratio vs rust (" \o p[1] \o "/" \o p[2] \o "): " \o Fixed(c, r, 3) \o "x"

\* The ratio lines that can be printed for p.
RatioTexts ==
  { <<p, RatioLine(p, c, r)>> : p \in AllPairs, c \in NsValues, r \in NsValues \ {0} }

IsRatioOf(p, l) == <<p, l>> \in RatioTexts

IsRatio(l) == \E p \in AllPairs : IsRatioOf(p, l)

Lines(sq) == { sq[i] : i \in 1..Len(sq) }

(***************************************************************************)
(* The claims.                                                             *)
(***************************************************************************)

\* C1: when every input file loads, the printed section headers are the
\* distinct scenario values of the loaded records (a record without scenario
\* counting as the empty string), each exactly once, nothing else, in
\* ascending lexicographic order.
C1_SectionHeaders ==
  Finished =>
    /\ Lines(HeaderLines) = { Header(s) : s \in LoadedNames }
    /\ Len(HeaderLines) = Cardinality(LoadedNames)
    /\ \A i, j \in 1..Len(HeaderLines) :
         i < j => LexLess(NameOfHeader(HeaderLines[i]), NameOfHeader(HeaderLines[j]))

\* Three scenarios, loaded in descending order, the record without scenario last.
C1_Witness ==
  /\ Finished
  /\ Len(items) = 3
  /\ NameOf(items[1]) = ScenB
  /\ NameOf(items[2]) = ScenAB
  /\ "scenario" \notin DOMAIN items[3]
  /\ Len(HeaderLines) = 3

RatioExpected(s, p) ==
  /\ HasRecord(s, p)
  /\ HasRecord(s, RustPair)
  /\ NsOf(LastRecord(s, RustPair)) > 0

RatioPrinted(s, p) == \E l \in Lines(Section(s)) : IsRatioOf(p, l)

\* C2, as the claim states it: for any (impl, target) pair, a ratio line
\* appears in the scenario's section if and only if the pair's record and the
\* (rust, rust) record exist in the scenario and the reference ns_per_iter is
\* strictly positive.
C2_AnyPair ==
  Finished =>
    \A s \in LoadedNames : \A p \in AllPairs : RatioPrinted(s, p) <=> RatioExpected(s, p)

\* C2, amended: the equivalence holds for the pairs (moonbit, native) and
\* (moonbit, wasm-gc); no ratio line is printed for any other pair, the
\* (rust, rust) pair included; and a scenario whose reference is absent or
\* has ns_per_iter of 0.0 or less has no ratio line at all.
C2_RatioIff ==
  Finished =>
    \A s \in LoadedNames :
      /\ \A p \in { NativePair, WasmPair } : RatioPrinted(s, p) <=> RatioExpected(s, p)
      /\ \A p \in AllPairs \ { NativePair, WasmPair } : ~RatioPrinted(s, p)
      /\ (~HasRecord(s, RustPair) \/ NsOf(LastRecord(s, RustPair)) <= 0)
           => \A l \in Lines(Section(s)) : ~IsRatio(l)

\* One scenario prints a ratio line; another has a candidate and a reference
\* whose ns_per_iter is negative, and prints none.
C2_Witness ==
  /\ Finished
  /\ RatioPrinted(ScenAB, NativePair)
  /\ ~HasRecord(ScenAB, WasmPair)
  /\ HasRecord(ScenB, RustPair)
  /\ NsOf(LastRecord(ScenB, RustPair)) < 0

\* C3: if any input file fails to load (not JSON, or not a JSON array), at
\* whatever position, the run aborts with an error and nothing is printed:
\* while the document in hand is not an array nothing has been printed and
\* the run has exited with an error or is about to reject the document, and
\* the step taken from there exits with status 1 and still nothing printed.
C3_AllOrNothing ==
  /\ [](data.json \in { "invalid", "object" } =>
          /\ out = << >>
          /\ pc = "exit" \/ (pc = "check" /\ data.json = "object")
          /\ pc = "exit" => status = "1" /\ raised \in { "ValueError", "JSONDecodeError" })
  /\ [][data.json \in { "invalid", "object" } =>
          pc' = "exit" /\ status' = "1" /\ raised' = "ValueError" /\ out' = << >>]_vars
  /\ [](status = "1" => out = << >>)

\* The second path is rejected after the first loaded two records.
C3_Witness ==
  /\ pi = 2
  /\ Len(items) = 2
  /\ data.json = "object"
  /\ pc = "exit"
  /\ raised = "ValueError"

\* C4: with zero input paths the run prints exactly the usage line, exits
\* with status 2, and never loads a file or builds a report.
C4_Usage ==
  paths = << >> =>
    /\ pc \in { "start", "exit" }
    /\ pc = "start" => out = << >> /\ status = ""
    /\ pc = "exit" => out = << usage >> /\ status = "2"
    /\ data = NoData
    /\ items = << >>
    /\ scenarios = << >>
    /\ by_scenario = << >>

C4_Witness == paths = << >> /\ pc = "exit" /\ Len(out) = 1

\* C5: among records sharing (scenario, impl, target), the row printed for
\* the pair and the values its ratio line is computed from (as candidate or
\* as reference) are those of the record last in load order.
C5_LastWins ==
  Finished =>
    \A s \in LoadedNames : \A p \in { RustPair, NativePair, WasmPair } :
      HasRecord(s, p) =>
        /\ format_row(p[1], p[2], LastRecord(s, p)) \in Lines(Section(s))
        /\ \A l \in Lines(Section(s)) :
             /\ IsRowOf(p, l) => l = format_row(p[1], p[2], LastRecord(s, p))
             /\ IsRatioOf(p, l) =>
                  /\ HasRecord(s, RustPair)
                  /\ l = RatioLine(p, NsOf(LastRecord(s, p)),
                                   NsOf(LastRecord(s, RustPair)))

\* Two differing (rust, rust) records of one scenario, the first with
\* ns_per_iter 0, and a candidate whose ratio is printed.
C5_Witness ==
  /\ Finished
  /\ Len(paths) = 2
  /\ Cardinality(Matching(ScenAB, RustPair)) = 2
  /\ NsOf(items[CHOOSE i \in Matching(ScenAB, RustPair) :
                   \A j \in Matching(ScenAB, RustPair) : i <= j]) = 0
  /\ RatioPrinted(ScenAB, NativePair)

ExpectedPairs(s) ==
  (IF HasRecord(s, RustPair) THEN << RustPair >> ELSE << >>)
    \o (IF HasRecord(s, NativePair) THEN << NativePair >> ELSE << >>)
    \o (IF HasRecord(s, WasmPair) THEN << WasmPair >> ELSE << >>)

\* C6: the data rows of a section are those of the pairs among (rust, rust),
\* (moonbit, native), (moonbit, wasm-gc) that have a record in the scenario
\* with both fields matching, one row each, in that order.
C6_Rows ==
  Finished =>
    \A s \in LoadedNames :
      LET rws == SelectSeq(Section(s), IsRow)
      IN  /\ Len(rws) = Len(ExpectedPairs(s))
          /\ \A i \in 1..Len(rws) : PairOfRow(rws[i]) = ExpectedPairs(s)[i]

\* The three pairs of one scenario, loaded in the reverse of the fixed order.
C6_Witness ==
  /\ Finished
  /\ Len(items) = 3
  /\ Matching(ScenAB, WasmPair) = { 1 }
  /\ Matching(ScenAB, NativePair) = { 2 }
  /\ Matching(ScenAB, RustPair) = { 3 }

\* A record of another pair, and one without impl and target, give no row.
C6_WitnessOther ==
  /\ Finished
  /\ Len(items) = 2
  /\ HasRecord(ScenB, <<"rust", "native">>)
  /\ items[2] = << >>
  /\ Len(HeaderLines) = 2

\* C7: each scenario's output is one contiguous block: section header,
\* column header, the data rows, then the ratio lines, then one blank line;
\* the rows of a block are rows of that scenario's records.
C7_Blocks ==
  paths # << >> =>
    /\ out = << >> \/ IsHeader(out[1])
    /\ \A s \in ScenarioNames :
         LET B == Section(s)
         IN  B # << >> =>
               /\ Cardinality({ i \in 1..Len(out) : out[i] = Header(s) }) = 1
               /\ Len(B) >= 3
               /\ B[1] = Header(s)
               /\ B[2] = ColumnHeaderText
               /\ B[Len(B)] = ""
               /\ \E k \in 2..(Len(B) - 1) :
                    /\ \A i \in 3..k :
                         /\ IsRow(B[i])
                         /\ \E m \in Matching(s, PairOfRow(B[i])) :
                              B[i] = format_row(PairOfRow(B[i])[1], PairOfRow(B[i])[2],
                                                items[m])
                    /\ \A i \in (k + 1)..(Len(B) - 1) : IsRatio(B[i])

\* Two blocks, the first with two rows and a ratio line, the second with a row.
C7_Witness ==
  /\ Finished
  /\ Len(Section(ScenAB)) = 6
  /\ Len(Section(ScenB)) = 4
  /\ Len(out) = 10

GroupOf(s) == SelectSeq(items, LAMBDA r : NameOf(r) = s)

\* C8: the files' records are concatenated in argument order (each loaded
\* document is appended to items, and items changes in no other way), and
\* grouping puts every record in exactly the group of its scenario value,
\* each group keeping load order.
C8_Partition ==
  /\ [][pc = "check" /\ pc' = "load" => items' = items \o data.data]_vars
  /\ [][items' # items => pc = "check" /\ pc' = "load"]_vars
  /\ [](pc \in { "report", "exit" } /\ AllLoaded =>
          /\ DOMAIN by_scenario = LoadedNames
          /\ \A s \in DOMAIN by_scenario : by_scenario[s] = GroupOf(s))

\* Two paths; a group holds two differing records, around another group's
\* record.
C8_Witness ==
  /\ pc = "report"
  /\ Len(paths) = 2
  /\ Len(items) = 3
  /\ NameOf(items[1]) = ScenAB
  /\ NameOf(items[2]) = ScenB
  /\ NameOf(items[3]) = ScenAB
  /\ items[1] # items[3]
  /\ Len(by_scenario[ScenAB]) = 2

\* C9: once every file has loaded as an array of mappings, the run is never
\* fatal: it raises nothing, and it exits only with status 0, after a
\* complete block was printed for every scenario.
C9_NeverFatal ==
  AllLoaded =>
    /\ raised = ""
    /\ status \in { "", "0" }
    /\ pc = "exit" =>
         /\ status = "0"
         /\ \A s \in LoadedNames : Section(s) # << >> /\ Section(s)[Len(Section(s))] = ""

\* A reference with ns_per_iter 0 and no iterations, a candidate without
\* ns_per_iter, and a record with no field at all.
C9_Witness ==
  /\ Finished
  /\ Len(items) = 3
  /\ HasRecord(ScenAB, RustPair)
  /\ NsOf(LastRecord(ScenAB, RustPair)) = 0
  /\ \E i \in Matching(ScenAB, WasmPair) : "ns_per_iter" \notin DOMAIN items[i]
  /\ \E i \in 1..3 : items[i] = << >>

\* n thousandths, as printed with three decimals
Thousandths(n) ==
  ToString(n \div 1000) \o "."
    \o (IF n % 1000 < 10 THEN "00" ELSE IF n % 1000 < 100 THEN "0" ELSE "")
    \o ToString(n % 1000)

\* C10: a printed ratio line of a pair carries candidate.ns_per_iter /
\* reference.ns_per_iter to three decimals, candidate and reference being the
\* scenario's records of the pair and of (rust, rust), a missing ns_per_iter
\* counting as 0.
C10_RatioValue ==
  Finished =>
    \A s \in LoadedNames : \A p \in AllPairs : \A l \in Lines(Section(s)) :
      IsRatioOf(p, l) =>
        /\ HasRecord(s, p)
        /\ HasRecord(s, RustPair)
        /\ LET c == NsOf(LastRecord(s, p))
               r == NsOf(LastRecord(s, RustPair))
           IN  /\ r > 0
               /\ c >= 0
               /\ \E n \in 0..3000 :
                    /\ l = "ratio vs rust (" \o p[1] \o "/" \o p[2] \o "): "
                             \o Thousandths(n) \o "x"
                    /\ 2 * Abs(n * r - 1000 * c) <= r

\* The example: reference 10, (moonbit, native) candidate 20; and a candidate
\* without ns_per_iter.
C10_Witness ==
  /\ Finished
  /\ "ratio vs rust (moonbit/native): 2.000x" \in Lines(Section(ScenAB))
  /\ "ratio vs rust (moonbit/wasm-gc): 0.000x" \in Lines(Section(ScenAB))
  /\ "rust       rust             10.000     0.000010       1000" \in Lines(Section(ScenAB))
  /\ "moonbit    native           20.000     0.000020       1000" \in Lines(Section(ScenAB))

====
